---- MODULE Spec2Model ----
(***************************************************************************)
(* The Tag handle of src/tag.rs: an owning wrapper around a native         *)
(* annotated-tag resource.  The model keeps the native heap (one entry per *)
(* pointer the native layer ever handed out, with the number of times it   *)
(* was released), the object database the native layer reads, the          *)
(* single-slot last-error state, and the Rust handles (Tag, Object) that   *)
(* own native pointers.                                                    *)
(***************************************************************************)
EXTENDS Integers, Sequences, FiniteSets, TLC

VARIABLES
    odb,      \* object database: oid -> [obj, present]
    refs,     \* tag name (text) -> oid, 0 when the name is not a tag
    heap,     \* native heap: pointer -> [oid, frees, obj]
    tagH,     \* Tag handles ever constructed: [raw, live]
    objH,     \* Object handles ever constructed: [raw, live]
    errslot,  \* the native layer's last-error slot
    created,  \* what repo.tag() was asked to create, by returned identifier
    uaf,      \* an accessor read a native resource that was already released
    last      \* the last call made and what it returned

vars == <<odb, refs, heap, tagH, objH, errslot, created, uaf, last>>

----------------------------------------------------------------------------
\* Bounds of the model.

\* identifiers the store may hand out
MaxOid == 3
\* native pointers the native layer may hand out
MaxPtr == 3
\* length of the byte strings a native accessor may return (SpecBytes)
MaxLen == 2

----------------------------------------------------------------------------
\* Option, Result and panics of the Rust side.

None == [some |-> FALSE]
Some(v) == [some |-> TRUE, val |-> v]
Ok(v) == [ok |-> TRUE, val |-> v]
Err(e) == [ok |-> FALSE, err |-> e]
Returned(v) == [panic |-> FALSE, val |-> v]
Panicked == [panic |-> TRUE]

\* Option::unwrap: the value, or a panic on None.
unwrap(o) == IF o.some THEN Returned(o.val) ELSE Panicked

\* A C pointer to bytes: null, or the bytes it points at.
NullPtr == [null |-> TRUE]
PtrTo(b) == [null |-> FALSE, bytes |-> b]

----------------------------------------------------------------------------
\* UTF-8.  Text is a sequence of code points, bytes a sequence of 0..255.

IsCont(x) == x >= 128 /\ x <= 191

\* The code point and width of the sequence starting b, width 0 if invalid.
Utf8Head(b) ==
    LET n == Len(b)
        b0 == b[1]
    IN  IF b0 < 128 THEN [w |-> 1, cp |-> b0]
        ELSE IF b0 >= 194 /\ b0 <= 223 /\ n >= 2 /\ IsCont(b[2])
            THEN [w |-> 2, cp |-> (b0 - 192) * 64 + (b[2] - 128)]
        ELSE IF b0 >= 224 /\ b0 <= 239 /\ n >= 3 /\ IsCont(b[2]) /\ IsCont(b[3])
            THEN LET c == (b0 - 224) * 4096 + (b[2] - 128) * 64 + (b[3] - 128)
                 IN  IF c >= 2048 /\ ~(c >= 55296 /\ c <= 57343)
                     THEN [w |-> 3, cp |-> c] ELSE [w |-> 0, cp |-> 0]
        ELSE IF b0 >= 240 /\ b0 <= 244 /\ n >= 4
                /\ IsCont(b[2]) /\ IsCont(b[3]) /\ IsCont(b[4])
            THEN LET c == (b0 - 240) * 262144 + (b[2] - 128) * 4096
                          + (b[3] - 128) * 64 + (b[4] - 128)
                 IN  IF c >= 65536 /\ c <= 1114111
                     THEN [w |-> 4, cp |-> c] ELSE [w |-> 0, cp |-> 0]
        ELSE [w |-> 0, cp |-> 0]

RECURSIVE from_utf8(_)
\* str::from_utf8(b).ok(): the text the bytes encode, None if they encode none.
from_utf8(b) ==
    IF b = <<>> THEN Some(<<>>)
    ELSE LET h == Utf8Head(b)
         IN  IF h.w = 0 THEN None
             ELSE LET rest == from_utf8(SubSeq(b, h.w + 1, Len(b)))
                  IN  IF rest.some THEN Some(<<h.cp>> \o rest.val) ELSE None

\* The bytes of one code point.
Utf8Char(c) ==
    IF c < 128 THEN <<c>>
    ELSE IF c < 2048 THEN <<192 + (c \div 64), 128 + (c % 64)>>
    ELSE IF c < 65536
        THEN <<224 + (c \div 4096), 128 + ((c \div 64) % 64), 128 + (c % 64)>>
    ELSE <<240 + (c \div 262144), 128 + ((c \div 4096) % 64),
           128 + ((c \div 64) % 64), 128 + (c % 64)>>

RECURSIVE as_bytes(_)
\* The bytes of a text (a &str handed to the native layer).
as_bytes(t) == IF t = <<>> THEN <<>> ELSE Utf8Char(t[1]) \o as_bytes(Tail(t))

----------------------------------------------------------------------------
\* The native layer (raw::*): status codes, object type codes, the error slot.

GIT_OK == 0
GIT_ENOTFOUND == -3
GIT_EEXISTS == -4

GIT_OBJ_ANY == -2
GIT_OBJ_COMMIT == 1
GIT_OBJ_TREE == 2
GIT_OBJ_BLOB == 3
GIT_OBJ_TAG == 4

NoError == [set |-> FALSE]

\* The native layer records an error: the slot holds this one and no other.
giterr_set(klass, what, id) == [set |-> TRUE, klass |-> klass, msg |-> [what |-> what, id |-> id]]

\* A native object resource freshly read from the database.
Resource(db, id) == [oid |-> id, frees |-> 0, obj |-> db[id].obj]

InStore(db, id) == id \in 1..Len(db) /\ db[id].present

\* Look an object up by identifier, of the given type or of any.
git_object_lookup(hp, db, slot, id, type) ==
    IF ~InStore(db, id)
    THEN [rc |-> GIT_ENOTFOUND, out |-> 0, heap |-> hp,
          slot |-> giterr_set("NotFound", "no match for id", id)]
    ELSE IF type # GIT_OBJ_ANY /\ db[id].obj.kind # type
    THEN [rc |-> GIT_ENOTFOUND, out |-> 0, heap |-> hp,
          slot |-> giterr_set("InvalidSpec", "type does not match", id)]
    ELSE [rc |-> GIT_OK, out |-> Len(hp) + 1,
          heap |-> Append(hp, Resource(db, id)), slot |-> slot]

\* A tag lookup that takes an object of any type.
git_tag_lookup_any(hp, db, slot, id) == git_object_lookup(hp, db, slot, id, GIT_OBJ_ANY)

git_tag_lookup(hp, db, slot, id) == git_object_lookup(hp, db, slot, id, GIT_OBJ_TAG)

\* Release a native resource; releasing the null pointer does nothing.
git_object_free(hp, p) == IF p = 0 THEN hp ELSE [hp EXCEPT ![p].frees = @ + 1]

git_tag_free(hp, p) == git_object_free(hp, p)

git_tag_id(hp, p) == hp[p].oid
git_tag_name(hp, p) == hp[p].obj.name
git_tag_message(hp, p) == hp[p].obj.message
git_tag_tagger(hp, p) == hp[p].obj.tagger
git_tag_target_id(hp, p) == hp[p].obj.target
git_tag_target_type(hp, p) == hp[p].obj.ttype
git_object_id(hp, p) == hp[p].oid
git_object_type(hp, p) == hp[p].obj.kind

\* One resolution step: the object the tag names, looked up in the database.
git_tag_target(hp, db, slot, tag) == git_object_lookup(hp, db, slot, git_tag_target_id(hp, tag), git_tag_target_type(hp, tag))

RECURSIVE git_object_peel(_, _, _, _, _)
\* Resolve from source until an object of another type than object's is
\* reached; an intermediate object is released as soon as it is stepped over.
git_object_peel(hp, db, slot, object, source) ==
    LET d == git_tag_target(hp, db, slot, source)
        hp1 == IF source # object THEN git_object_free(d.heap, source) ELSE d.heap
    IN  IF d.rc # GIT_OK
        THEN [rc |-> d.rc, out |-> 0, heap |-> hp1, slot |-> d.slot]
        ELSE IF git_object_type(hp1, d.out) # git_object_type(hp1, object)
        THEN [rc |-> GIT_OK, out |-> d.out, heap |-> hp1, slot |-> d.slot]
        ELSE git_object_peel(hp1, db, d.slot, object, d.out)

git_tag_peel(hp, db, slot, tag) == git_object_peel(hp, db, slot, tag, tag)

----------------------------------------------------------------------------
\* The crate's helpers the Tag handle uses.

\* opt_bytes: the bytes behind a C pointer, None behind the null pointer.
opt_bytes(c) == IF c.null THEN None ELSE Some(c.bytes)

\* The structured error of the status just returned, read from the slot.
last_error(rc, slot) ==
    IF slot.set THEN [class |-> slot.klass, code |-> rc, message |-> slot.msg]
    ELSE [class |-> "Generic", code |-> rc, message |-> [what |-> "an unknown error occurred", id |-> 0]]

\* try_call!: zero is success; any other status returns the error at once.
try_call(rc, slot) == IF rc # GIT_OK THEN Err(last_error(rc, slot)) ELSE Ok(rc)

\* ObjectType::from_raw: an unrecognised native code is absent.
ObjectType_from_raw(code) ==
    IF code = GIT_OBJ_ANY THEN Some("Any")
    ELSE IF code = GIT_OBJ_COMMIT THEN Some("Commit")
    ELSE IF code = GIT_OBJ_TREE THEN Some("Tree")
    ELSE IF code = GIT_OBJ_BLOB THEN Some("Blob")
    ELSE IF code = GIT_OBJ_TAG THEN Some("Tag")
    ELSE None

\* Binding::from_raw for Object: the handle owns the pointer.
Object_from_raw(raw) == [raw |-> raw, live |-> TRUE]

\* signature::from_raw_const: a view borrowed from the owner's memory.
signature_from_raw_const(ptr) == ptr.sig

\* Signature::name
Signature_name(sig) == from_utf8(sig.name)

----------------------------------------------------------------------------
\* impl Tag.  self is the handle [raw, live]; hp the native heap it reads.

\* Binding::from_raw: the handle owns the pointer it is given.
from_raw(raw) == [raw |-> raw, live |-> TRUE]

id(hp, self) == git_tag_id(hp, self.raw)

message_bytes(hp, self) == opt_bytes(git_tag_message(hp, self.raw))

\* A message() that decodes the empty string where there is no message.
message_or_empty(hp, self) ==
    LET b == message_bytes(hp, self)
    IN  IF b.some THEN from_utf8(b.val) ELSE Some(<<>>)

\* message_bytes().and_then(|s| str::from_utf8(s).ok())
message(hp, self) ==
    LET b == message_bytes(hp, self)
    IN  IF b.some THEN from_utf8(b.val) ELSE None

\* A name_bytes() that reads the message pointer.
name_bytes_of_message(hp, self) == unwrap(opt_bytes(git_tag_message(hp, self.raw)))

\* opt_bytes(..).unwrap(): panics when the native name pointer is null.
name_bytes(hp, self) == unwrap(opt_bytes(git_tag_name(hp, self.raw)))

\* A name() that accepts ASCII only.
name_ascii_only(hp, self) ==
    LET b == unwrap(opt_bytes(git_tag_name(hp, self.raw)))
    IN  IF b.panic THEN Panicked
        ELSE IF \A i \in 1..Len(b.val) : b.val[i] < 128 THEN Returned(from_utf8(b.val))
        ELSE Returned(None)

\* str::from_utf8(self.name_bytes()).ok()
name(hp, self) ==
    LET b == name_bytes(hp, self)
    IN  IF b.panic THEN Panicked ELSE Returned(from_utf8(b.val))

\* A peel() that resolves one step only.
peel_one_step(hp, db, slot, self) ==
    LET r == git_tag_target(hp, db, slot, self.raw)
        c == try_call(r.rc, r.slot)
    IN  IF ~c.ok THEN [ret |-> Err(c.err), heap |-> r.heap, slot |-> r.slot]
        ELSE [ret |-> Ok(Object_from_raw(r.out)), heap |-> r.heap, slot |-> r.slot]

\* A peel() that wraps the out-pointer whatever the status.
peel_unchecked(hp, db, slot, self) ==
    LET r == git_tag_peel(hp, db, slot, self.raw)
    IN  [ret |-> Ok(Object_from_raw(r.out)), heap |-> r.heap, slot |-> r.slot]

\* A peel() that reads the error slot only after the native layer has cleared it.
peel_reads_late(hp, db, slot, self) ==
    LET r == git_tag_peel(hp, db, slot, self.raw)
        c == try_call(r.rc, NoError)
    IN  IF ~c.ok THEN [ret |-> Err(c.err), heap |-> r.heap, slot |-> NoError]
        ELSE [ret |-> Ok(Object_from_raw(r.out)), heap |-> r.heap, slot |-> r.slot]

\* The native call, its status translated at once, then the wrapped object.
peel(hp, db, slot, self) ==
    LET r == git_tag_peel(hp, db, slot, self.raw)
        c == try_call(r.rc, r.slot)
    IN  IF ~c.ok THEN [ret |-> Err(c.err), heap |-> r.heap, slot |-> r.slot]
        ELSE [ret |-> Ok(Object_from_raw(r.out)), heap |-> r.heap, slot |-> r.slot]

tagger(hp, self) ==
    LET ptr == git_tag_tagger(hp, self.raw)
    IN  IF ptr.null THEN None ELSE Some(signature_from_raw_const(ptr))

\* A target() that peels.
target_peels(hp, db, slot, self) ==
    LET r == git_tag_peel(hp, db, slot, self.raw)
        c == try_call(r.rc, r.slot)
    IN  IF ~c.ok THEN [ret |-> Err(c.err), heap |-> r.heap, slot |-> r.slot]
        ELSE [ret |-> Ok(Object_from_raw(r.out)), heap |-> r.heap, slot |-> r.slot]

target(hp, db, slot, self) ==
    LET r == git_tag_target(hp, db, slot, self.raw)
        c == try_call(r.rc, r.slot)
    IN  IF ~c.ok THEN [ret |-> Err(c.err), heap |-> r.heap, slot |-> r.slot]
        ELSE [ret |-> Ok(Object_from_raw(r.out)), heap |-> r.heap, slot |-> r.slot]

target_id(hp, self) == git_tag_target_id(hp, self.raw)

target_type(hp, self) == ObjectType_from_raw(git_tag_target_type(hp, self.raw))

\* A destructor that releases nothing.
drop_leaks(hp, self) == hp

\* Drop for Tag: the native resource is released.
drop(hp, self) == git_tag_free(hp, self.raw)

\* Drop for Object.
Object_drop(hp, self) == git_object_free(hp, self.raw)

\* Object::id
Object_id(hp, self) == git_object_id(hp, self.raw)

\* Object::kind
Object_kind(hp, self) == ObjectType_from_raw(git_object_type(hp, self.raw))

----------------------------------------------------------------------------
\* The repository operations the handle's callers use (tests::smoke).

\* Repository::find_tag
find_tag(hp, db, slot, oid) ==
    LET r == git_tag_lookup(hp, db, slot, oid)
        c == try_call(r.rc, r.slot)
    IN  IF ~c.ok THEN [ret |-> Err(c.err), heap |-> r.heap, slot |-> r.slot]
        ELSE [ret |-> Ok(from_raw(r.out)), heap |-> r.heap, slot |-> r.slot]

\* Repository::find_object(id, None)
find_object(hp, db, slot, oid) ==
    LET r == git_object_lookup(hp, db, slot, oid, GIT_OBJ_ANY)
        c == try_call(r.rc, r.slot)
    IN  IF ~c.ok THEN [ret |-> Err(c.err), heap |-> r.heap, slot |-> r.slot]
        ELSE [ret |-> Ok(Object_from_raw(r.out)), heap |-> r.heap, slot |-> r.slot]

\* The tag object the store writes for a name, a target, a tagger, a message.
TagObject(n, t, s, m) == [kind |-> GIT_OBJ_TAG, name |-> PtrTo(as_bytes(n)), message |-> PtrTo(as_bytes(m)), tagger |-> [null |-> FALSE, sig |-> s], target |-> t.oid, ttype |-> t.obj.kind]

\* The identifier of an object: that of equal content if the store ever held
\* it (identifiers are content hashes), else the next one.
OidOf(db, obj) ==
    IF \E i \in 1..Len(db) : db[i].obj = obj
    THEN CHOOSE i \in 1..Len(db) : db[i].obj = obj
    ELSE Len(db) + 1

\* The database with the object stored under its identifier.
Store(db, obj) ==
    LET i == OidOf(db, obj)
    IN  IF i <= Len(db) THEN [db EXCEPT ![i].present = TRUE]
        ELSE Append(db, [obj |-> obj, present |-> TRUE])

\* The native tag creation: refuses a name in use unless forced.
git_tag_create(db, rf, slot, n, t, s, m, force) ==
    IF rf[n] # 0 /\ ~force
    THEN [rc |-> GIT_EEXISTS, oid |-> 0, odb |-> db, refs |-> rf,
          slot |-> giterr_set("Exists", "tag already exists", rf[n])]
    ELSE [rc |-> GIT_OK, oid |-> OidOf(db, TagObject(n, t, s, m)),
          odb |-> Store(db, TagObject(n, t, s, m)),
          refs |-> [rf EXCEPT ![n] = OidOf(db, TagObject(n, t, s, m))], slot |-> slot]

\* Repository::tag
tag(hp, db, rf, slot, n, obj, s, m, force) ==
    LET r == git_tag_create(db, rf, slot, n, hp[obj.raw], s, m, force)
        c == try_call(r.rc, r.slot)
    IN  [ret |-> IF c.ok THEN Ok(r.oid) ELSE Err(c.err), odb |-> r.odb, refs |-> r.refs, slot |-> r.slot]

----------------------------------------------------------------------------
\* What the callers pass in, and what a store may already hold.

\* "foo" and U+00E9 (two bytes in UTF-8)
TagNames == {<<102, 111, 111>>, <<233>>}
\* "msg"
Messages == {<<109, 115, 103>>}
\* the repository's signature
Sigs == {[name |-> <<97>>, email |-> <<97, 64, 98>>]}

\* The commit test::repo_init() writes.
Commit == [kind |-> GIT_OBJ_COMMIT]

RECURSIVE StoresOfLen(_)
\* The stores of k objects: a commit, then tags, each naming an object written
\* before it.  An object may since have gone missing from the store.
StoresOfLen(k) ==
    IF k = 1 THEN {<<[obj |-> Commit, present |-> p]>> : p \in BOOLEAN}
    ELSE {Append(x.db, [obj |-> TagObject(x.n, Resource(x.db, x.j), x.s, x.m), present |-> x.p]) :
            x \in {y \in [db : StoresOfLen(k - 1), n : TagNames, j : 1..(k - 1), s : Sigs, m : Messages, p : BOOLEAN] :
                    \A i \in 1..Len(y.db) : y.db[i].obj # TagObject(y.n, Resource(y.db, y.j), y.s, y.m)}}

\* The bytes a native accessor may point at: 'f', a continuation byte, a lead
\* byte, and a byte no UTF-8 text holds.
ByteAlphabet == {102, 169, 195, 255}
ByteStrings == UNION {[1..n -> ByteAlphabet] : n \in 0..MaxLen}
BytePtrs == {NullPtr} \cup {PtrTo(b) : b \in ByteStrings}

\* The pointers the heap holds unreleased.
Held(hp) == {p \in 1..Len(hp) : hp[p].frees = 0}

LiveTags == {h \in 1..Len(tagH) : tagH[h].live}
LiveObjects == {o \in 1..Len(objH) : objH[o].live}

\* A native accessor reads the resource behind a handle.
Reads(p) == uaf' = (uaf \/ heap[p].frees > 0)

----------------------------------------------------------------------------
\* Repository calls.

FindTag(oid, cap) ==
    LET r == find_tag(heap, odb, errslot, oid)
    IN  /\ Len(r.heap) <= cap
        /\ heap' = r.heap
        /\ errslot' = r.slot
        /\ tagH' = IF r.ret.ok THEN Append(tagH, r.ret.val) ELSE tagH
        /\ last' = [op |-> "find_tag", oid |-> oid, preTags |-> Len(tagH),
                    ret |-> IF r.ret.ok THEN Ok(Len(tagH) + 1) ELSE r.ret]
        /\ UNCHANGED <<odb, refs, objH, created, uaf>>

FindObject(oid, cap) ==
    LET r == find_object(heap, odb, errslot, oid)
    IN  /\ Len(r.heap) <= cap
        /\ heap' = r.heap
        /\ errslot' = r.slot
        /\ objH' = IF r.ret.ok THEN Append(objH, r.ret.val) ELSE objH
        /\ last' = [op |-> "find_object", oid |-> oid,
                    ret |-> IF r.ret.ok THEN Ok(Len(objH) + 1) ELSE r.ret]
        /\ UNCHANGED <<odb, refs, tagH, created, uaf>>

TagCreate(n, o, s, m, force) ==
    /\ o \in LiveObjects
    /\ LET r == tag(heap, odb, refs, errslot, n, objH[o], s, m, force)
       IN  /\ Len(r.odb) <= MaxOid
           /\ odb' = r.odb
           /\ refs' = r.refs
           /\ errslot' = r.slot
           /\ created' = IF r.ret.ok
                         THEN created \cup {[id |-> r.ret.val, name |-> n, message |-> m, sig |-> s, target |-> Object_id(heap, objH[o]), kind |-> Object_kind(heap, objH[o])]}
                         ELSE created
           /\ last' = [op |-> "tag", ret |-> r.ret]
    /\ Reads(objH[o].raw)
    /\ UNCHANGED <<heap, tagH, objH>>

----------------------------------------------------------------------------
\* Calls on a Tag handle.  A method borrows the handle, so the handle is in
\* scope: only a Live handle can be called.

Call_id(h) ==
    /\ h \in LiveTags
    /\ last' = [op |-> "id", h |-> h, ret |-> id(heap, tagH[h])]
    /\ Reads(tagH[h].raw)
    /\ UNCHANGED <<odb, refs, heap, tagH, objH, errslot, created>>

Call_message(h) ==
    /\ h \in LiveTags
    /\ last' = [op |-> "message", h |-> h, ret |-> message(heap, tagH[h])]
    /\ Reads(tagH[h].raw)
    /\ UNCHANGED <<odb, refs, heap, tagH, objH, errslot, created>>

Call_message_bytes(h) ==
    /\ h \in LiveTags
    /\ last' = [op |-> "message_bytes", h |-> h, ret |-> message_bytes(heap, tagH[h])]
    /\ Reads(tagH[h].raw)
    /\ UNCHANGED <<odb, refs, heap, tagH, objH, errslot, created>>

Call_name(h) ==
    /\ h \in LiveTags
    /\ last' = [op |-> "name", h |-> h, ret |-> name(heap, tagH[h])]
    /\ Reads(tagH[h].raw)
    /\ UNCHANGED <<odb, refs, heap, tagH, objH, errslot, created>>

Call_name_bytes(h) ==
    /\ h \in LiveTags
    /\ last' = [op |-> "name_bytes", h |-> h, ret |-> name_bytes(heap, tagH[h])]
    /\ Reads(tagH[h].raw)
    /\ UNCHANGED <<odb, refs, heap, tagH, objH, errslot, created>>

Call_tagger(h) ==
    /\ h \in LiveTags
    /\ last' = [op |-> "tagger", h |-> h, ret |-> tagger(heap, tagH[h])]
    /\ Reads(tagH[h].raw)
    /\ UNCHANGED <<odb, refs, heap, tagH, objH, errslot, created>>

Call_target_id(h) ==
    /\ h \in LiveTags
    /\ last' = [op |-> "target_id", h |-> h, ret |-> target_id(heap, tagH[h])]
    /\ Reads(tagH[h].raw)
    /\ UNCHANGED <<odb, refs, heap, tagH, objH, errslot, created>>

Call_target_type(h) ==
    /\ h \in LiveTags
    /\ last' = [op |-> "target_type", h |-> h, ret |-> target_type(heap, tagH[h])]
    /\ Reads(tagH[h].raw)
    /\ UNCHANGED <<odb, refs, heap, tagH, objH, errslot, created>>

\* What a resolving call leaves behind, with what the native call it makes
\* returned (nrc) and wrote to the error slot (nslot), and the state before.
Resolved(op, h, r, n, cap) ==
    /\ Len(r.heap) <= cap
    /\ heap' = r.heap
    /\ errslot' = r.slot
    /\ objH' = IF r.ret.ok THEN Append(objH, r.ret.val) ELSE objH
    /\ last' = [op |-> op, h |-> h, nrc |-> n.rc, nslot |-> n.slot,
                ret |-> IF r.ret.ok THEN Ok(Len(objH) + 1) ELSE r.ret,
                preObjs |-> Len(objH), preHeld |-> Held(heap), preSlot |-> errslot,
                preTag |-> tagH[h], preRes |-> heap[tagH[h].raw]]
    /\ Reads(tagH[h].raw)
    /\ UNCHANGED <<odb, refs, tagH, created>>

Call_peel(h, cap) ==
    /\ h \in LiveTags
    /\ Resolved("peel", h, peel(heap, odb, errslot, tagH[h]), git_tag_peel(heap, odb, errslot, tagH[h].raw), cap)

Call_target(h, cap) ==
    /\ h \in LiveTags
    /\ Resolved("target", h, target(heap, odb, errslot, tagH[h]), git_tag_target(heap, odb, errslot, tagH[h].raw), cap)

\* The handle goes out of scope: its destructor runs, once.
DropTag(h) ==
    /\ h \in LiveTags
    /\ heap' = drop(heap, tagH[h])
    /\ tagH' = [tagH EXCEPT ![h].live = FALSE]
    /\ last' = [op |-> "drop", h |-> h]
    /\ UNCHANGED <<odb, refs, objH, errslot, created, uaf>>

DropObject(o) ==
    /\ o \in LiveObjects
    /\ heap' = Object_drop(heap, objH[o])
    /\ objH' = [objH EXCEPT ![o].live = FALSE]
    /\ last' = [op |-> "drop_object", o |-> o]
    /\ UNCHANGED <<odb, refs, tagH, errslot, created, uaf>>

----------------------------------------------------------------------------
\* Spec: tag handles over a store that already holds its objects.

Init ==
    /\ odb \in UNION {StoresOfLen(k) : k \in 1..MaxOid}
    /\ refs = [n \in TagNames |-> 0]
    /\ heap = <<>>
    /\ tagH = <<>>
    /\ objH = <<>>
    /\ errslot = NoError
    /\ created = {}
    /\ uaf = FALSE
    /\ last = [op |-> "init"]

Next ==
    \/ \E oid \in 1..MaxOid : FindTag(oid, MaxPtr)
    \/ \E h \in 1..MaxPtr : Call_id(h)
    \/ \E h \in 1..MaxPtr : Call_message(h)
    \/ \E h \in 1..MaxPtr : Call_message_bytes(h)
    \/ \E h \in 1..MaxPtr : Call_name(h)
    \/ \E h \in 1..MaxPtr : Call_name_bytes(h)
    \/ \E h \in 1..MaxPtr : Call_peel(h, MaxPtr)
    \/ \E h \in 1..MaxPtr : Call_tagger(h)
    \/ \E h \in 1..MaxPtr : Call_target(h, MaxPtr)
    \/ \E h \in 1..MaxPtr : Call_target_id(h)
    \/ \E h \in 1..MaxPtr : Call_target_type(h)
    \/ \E h \in 1..MaxPtr : DropTag(h)
    \/ \E o \in 1..MaxPtr : DropObject(o)

Spec == Init /\ [][Next]_vars

----------------------------------------------------------------------------
\* SpecRepo: tests::smoke.  The state after test::repo_init() is one commit,
\* no tag and no handle; tags are then created and looked up.

InitRepo ==
    /\ odb = <<[obj |-> Commit, present |-> TRUE]>>
    /\ refs = [n \in TagNames |-> 0]
    /\ heap = <<>>
    /\ tagH = <<>>
    /\ objH = <<>>
    /\ errslot = NoError
    /\ created = {}
    /\ uaf = FALSE
    /\ last = [op |-> "init"]

\* The caller looks up at most MaxPtr handles; peeling through a chain of two
\* tags obtains two native objects more.
RepoPtr == MaxPtr + 2

NextRepo ==
    \/ \E oid \in 1..MaxOid : FindTag(oid, MaxPtr)
    \/ \E oid \in 1..MaxOid : FindObject(oid, MaxPtr)
    \/ \E n \in TagNames, o \in 1..RepoPtr, s \in Sigs, m \in Messages, force \in BOOLEAN : TagCreate(n, o, s, m, force)
    \/ \E h \in 1..RepoPtr : Call_id(h)
    \/ \E h \in 1..RepoPtr : Call_message(h)
    \/ \E h \in 1..RepoPtr : Call_name(h)
    \/ \E h \in 1..RepoPtr : Call_peel(h, RepoPtr)
    \/ \E h \in 1..RepoPtr : Call_tagger(h)
    \/ \E h \in 1..RepoPtr : Call_target_id(h)
    \/ \E h \in 1..RepoPtr : Call_target_type(h)

SpecRepo == InitRepo /\ [][NextRepo]_vars

----------------------------------------------------------------------------
\* SpecBytes: one Live handle on a native tag whose accessors may return any
\* pointer: null, or any bytes.

InitBytes ==
    /\ \E nm \in BytePtrs, msg \in BytePtrs, tg \in {[null |-> TRUE]} \cup {[null |-> FALSE, sig |-> s] : s \in Sigs}, tt \in {GIT_OBJ_COMMIT, 0} :
          odb = <<[obj |-> Commit, present |-> TRUE], [obj |-> [kind |-> GIT_OBJ_TAG, name |-> nm, message |-> msg, tagger |-> tg, target |-> 1, ttype |-> tt], present |-> TRUE]>>
    /\ refs = [n \in TagNames |-> 0]
    /\ heap = <<Resource(odb, 2)>>
    /\ tagH = <<from_raw(1)>>
    /\ objH = <<>>
    /\ errslot = NoError
    /\ created = {}
    /\ uaf = FALSE
    /\ last = [op |-> "init"]

NextBytes ==
    \/ Call_id(1)
    \/ Call_message(1)
    \/ Call_message_bytes(1)
    \/ Call_name(1)
    \/ Call_name_bytes(1)
    \/ Call_tagger(1)
    \/ Call_target_id(1)
    \/ Call_target_type(1)

SpecBytes == InitBytes /\ [][NextBytes]_vars

----------------------------------------------------------------------------
\* What the claims are stated with.

RECURSIVE ChainEnd(_, _)
\* The first object that is not a tag on the chain from oid, 0 when a link of
\* the chain is missing from the store.
ChainEnd(db, oid) ==
    IF ~InStore(db, oid) THEN 0
    ELSE IF db[oid].obj.kind # GIT_OBJ_TAG THEN oid
    ELSE ChainEnd(db, db[oid].obj.target)

\* The texts whose bytes are byte strings of the model.
CodePoints == {102, 233}
Texts == UNION {[1..n -> CodePoints] : n \in 0..MaxLen}
ValidUtf8(b) == \E t \in Texts : as_bytes(t) = b

\* The native resource behind the handle the last call was made on.
LastRes == heap[tagH[last.h].raw]

Resolving == last.op \in {"peel", "target"}

----------------------------------------------------------------------------
\* C1: every native tag resource wrapped into a Tag handle has been released
\* 0 times while the handle is Live and exactly once after it was dropped,
\* no two handles own the same resource, and no accessor ever read a
\* resource that was already released.
C1_ReleasedExactlyOnce ==
    /\ \A h \in 1..Len(tagH) : heap[tagH[h].raw].frees = (IF tagH[h].live THEN 0 ELSE 1)
    /\ \A h, k \in 1..Len(tagH) : tagH[h].raw = tagH[k].raw => h = k
    /\ ~uaf

C1_Witness ==
    \E h, k \in 1..Len(tagH) : ~tagH[h].live /\ tagH[k].live /\ last.op = "peel" /\ last.h = k /\ last.ret.ok

\* C2: peel() returns the first non-tag object at the end of the tag's chain,
\* never a tag, and an error exactly when a link of the chain is missing.
C2_PeelReachesNonTag ==
    last.op = "peel" =>
        LET e == ChainEnd(odb, LastRes.obj.target)
        IN  /\ e = 0 => ~last.ret.ok
            /\ e # 0 => /\ last.ret.ok
                        /\ Object_id(heap, objH[last.ret.val]) = e
                        /\ Object_kind(heap, objH[last.ret.val]) # Some("Tag")

C2_Witness ==
    /\ last.op = "peel"
    /\ last.ret.ok
    /\ odb[LastRes.obj.target].obj.kind = GIT_OBJ_TAG

\* C3: the object target() returns has the identifier target_id() returns,
\* which is the target the store recorded in the tag, whenever each is called.
C3_TargetIdAgrees ==
    /\ (last.op = "target" /\ last.ret.ok) => Object_id(heap, objH[last.ret.val]) = target_id(heap, tagH[last.h])
    /\ last.op = "target_id" => last.ret = odb[LastRes.oid].obj.target
    /\ last.op = "target" => target_id(heap, tagH[last.h]) = odb[LastRes.oid].obj.target

C3_Witness ==
    /\ last.op = "target"
    /\ last.ret.ok
    /\ Object_kind(heap, objH[last.ret.val]) = Some("Tag")

\* C4: when the native call of peel() or target() returns a nonzero status the
\* caller gets an error, no Object handle is constructed, every native
\* resource obtained on the way is released, and the tag handle and its
\* resource are as before; an Object handle is constructed only after zero.
C4_FailureLeavesNothing ==
    Resolving =>
        /\ last.nrc # GIT_OK =>
            /\ ~last.ret.ok
            /\ Len(objH) = last.preObjs
            /\ Held(heap) = last.preHeld
            /\ tagH[last.h] = last.preTag
            /\ tagH[last.h].live
            /\ LastRes = last.preRes
        /\ (last.ret.ok \/ Len(objH) # last.preObjs) => last.nrc = GIT_OK
        /\ \A o \in 1..Len(objH) : objH[o].raw # 0

C4_Witness ==
    /\ last.op = "peel"
    /\ last.nrc # GIT_OK
    /\ \E p \in 1..Len(heap) : heap[p].frees = 1 /\ \A h \in 1..Len(tagH) : tagH[h].raw # p

\* C5 as claimed: a tag created with name n, message m, target C and
\* signature S reads back through the handle looked up by its identifier,
\* and peel() returns C.
C5_RoundTripAnyTarget ==
    \A h \in LiveTags : \A c \in created :
        c.id = heap[tagH[h].raw].oid =>
            /\ id(heap, tagH[h]) = c.id
            /\ name(heap, tagH[h]) = Returned(Some(c.name))
            /\ message(heap, tagH[h]) = Some(c.message)
            /\ target_id(heap, tagH[h]) = c.target
            /\ target_type(heap, tagH[h]) = c.kind
            /\ tagger(heap, tagH[h]).some
            /\ Signature_name(tagger(heap, tagH[h]).val) = Signature_name(c.sig)
            /\ (last.op = "peel" /\ last.h = h) =>
                    /\ last.ret.ok
                    /\ Object_id(heap, objH[last.ret.val]) = c.target

\* C5 as amended: peel() returns C when C is not a tag, and the first
\* non-tag object reached from C, another object than C, when C is a tag.
C5_RoundTrip ==
    \A h \in LiveTags : \A c \in created :
        c.id = heap[tagH[h].raw].oid =>
            /\ id(heap, tagH[h]) = c.id
            /\ name(heap, tagH[h]) = Returned(Some(c.name))
            /\ message(heap, tagH[h]) = Some(c.message)
            /\ target_id(heap, tagH[h]) = c.target
            /\ target_type(heap, tagH[h]) = c.kind
            /\ tagger(heap, tagH[h]).some
            /\ Signature_name(tagger(heap, tagH[h]).val) = Signature_name(c.sig)
            /\ (last.op = "peel" /\ last.h = h) =>
                    /\ last.ret.ok
                    /\ c.kind # Some("Tag") => Object_id(heap, objH[last.ret.val]) = c.target
                    /\ c.kind = Some("Tag") =>
                        /\ Object_id(heap, objH[last.ret.val]) = ChainEnd(odb, c.target)
                        /\ Object_id(heap, objH[last.ret.val]) # c.target

C5_Witness ==
    /\ last.op = "peel"
    /\ last.ret.ok
    /\ \E c \in created : c.id = LastRes.oid /\ c.kind = Some("Commit") /\ c.name = <<233>>

C8_CommitIsNoTag ==
    /\ (last.op = "find_tag" /\ InStore(odb, last.oid) /\ odb[last.oid].obj.kind = GIT_OBJ_COMMIT) =>
        /\ ~last.ret.ok
        /\ last.ret.err.class \in {"NotFound", "InvalidSpec"}
        /\ Len(tagH) = last.preTags
    /\ \A h \in 1..Len(tagH) : git_object_type(heap, tagH[h].raw) = GIT_OBJ_TAG

C8_Witness ==
    /\ last.op = "find_tag"
    /\ InStore(odb, last.oid)
    /\ odb[last.oid].obj.kind = GIT_OBJ_COMMIT
    /\ created = {}
    /\ Len(odb) = 1

\* C9: message_bytes() is None exactly when the native message pointer is
\* null, and else the bytes behind it; message() is None exactly when
\* message_bytes() is None or its bytes are not valid UTF-8, and else the text
\* those bytes encode.
C9_MessageDecodes ==
    /\ last.op = "message_bytes" =>
        /\ ~last.ret.some <=> git_tag_message(heap, tagH[last.h].raw).null
        /\ last.ret.some => last.ret.val = git_tag_message(heap, tagH[last.h].raw).bytes
    /\ last.op = "message" =>
        LET b == message_bytes(heap, tagH[last.h])
        IN  /\ ~last.ret.some <=> (~b.some \/ ~ValidUtf8(b.val))
            /\ last.ret.some => as_bytes(last.ret.val) = b.val

C9_Witness ==
    /\ last.op = "message"
    /\ ~last.ret.some
    /\ message_bytes(heap, tagH[last.h]).some

\* C10: the error peel() or target() returns carries the status of its native
\* call and the class and message that very call wrote to the error slot.
C10_ErrorOfThatCall ==
    (Resolving /\ last.nrc # GIT_OK) =>
        /\ ~last.ret.ok
        /\ last.ret.err.code = last.nrc
        /\ last.ret.err.class = last.nslot.klass
        /\ last.ret.err.message = last.nslot.msg

C10_Witness ==
    /\ Resolving
    /\ last.nrc # GIT_OK
    /\ last.preSlot.set
    /\ last.preSlot # last.nslot

====
